---- MODULE Spec2Model ----
\* Model of tally.py (Mello 2026 vote tallying and validation).
\*
\* parse_tsv, validate, tally and main are modelled from the source.  Python
\* lists are sequences; list and column indexes are kept 0-based as in the
\* source (element i of a list s is s[i + 1]).
EXTENDS Integers, Sequences, FiniteSets, TLC

VARIABLES pc, argv, file, header, row, songs, song_cols, name_col, voters,
          errors, results, raised, out, exitcode

vars == <<pc, argv, file, header, row, songs, song_cols, name_col, voters,
          errors, results, raised, out, exitcode>>

-----------------------------------------------------------------------------
\* Program constants

VALID_POINTS == {1, 2, 3, 4, 5, 6, 8, 10}

RECURSIVE SetSum(_)
SetSum(S) ==
  IF S = {} THEN 0
  ELSE LET x == CHOOSE y \in S : TRUE IN x + SetSum(S \ {x})

\* the sum of 1..10 instead of the sum of the valid values
EXPECTED_SUM_OF_RANGE == SetSum(1..10)

EXPECTED_SUM == SetSum(VALID_POINTS)

\* name_col = None
None == -1

-----------------------------------------------------------------------------
\* Python built-ins used by the source

\* sum(pts)
RECURSIVE SeqSum(_)
SeqSum(s) == IF s = <<>> THEN 0 ELSE Head(s) + SeqSum(Tail(s))

\* set(pts)
SeqSet(s) == {s[i] : i \in DOMAIN s}

\* pts.count(p)
Count(s, p) == Cardinality({i \in DOMAIN s : s[i] = p})

\* sorted(S): the elements of a set of integers in ascending order
RECURSIVE Sorted(_)
Sorted(S) ==
  IF S = {} THEN <<>>
  ELSE LET m == CHOOSE x \in S : \A y \in S : x <= y
       IN <<m>> \o Sorted(S \ {m})

\* sorted(S, reverse=True)
RECURSIVE SortedDesc(_)
SortedDesc(S) ==
  IF S = {} THEN <<>>
  ELSE LET m == CHOOSE x \in S : \A y \in S : x >= y
       IN <<m>> \o SortedDesc(S \ {m})

\* sorted(VALID_POINTS, reverse=True)
POINT_ORDER == SortedDesc(VALID_POINTS)

\* the concatenation of a sequence of sequences
RECURSIVE Flatten(_)
Flatten(ss) == IF ss = <<>> THEN <<>> ELSE Head(ss) \o Flatten(Tail(ss))

-----------------------------------------------------------------------------
\* validate(songs, voters)

Msg(name, kind, vals) == [voter |-> name, kind |-> kind, vals |-> vals]

\* len(pts) != len(songs)
CountMsgs(ss, v) ==
  IF Len(v.points) # Len(ss)
  THEN <<Msg(v.name, "count", <<Len(v.points), Len(ss)>>)>>
  ELSE <<>>

\* pts_set != VALID_POINTS: missing and extra values
ValueMsgs(v) ==
  LET pts_set == SeqSet(v.points)
      missing == VALID_POINTS \ pts_set
      extra   == pts_set \ VALID_POINTS
  IN IF pts_set # VALID_POINTS
     THEN (IF missing # {} THEN <<Msg(v.name, "missing", Sorted(missing))>> ELSE <<>>)
          \o (IF extra # {} THEN <<Msg(v.name, "invalid", Sorted(extra))>> ELSE <<>>)
     ELSE <<>>

\* dupes over every value of the ballot instead of the valid ones
DupesOfAnyValue(pts) == Sorted({p \in SeqSet(pts) : Count(pts, p) > 1})

\* dupes = [p for p in VALID_POINTS if pts.count(p) > 1]
Dupes(pts) == Sorted({p \in VALID_POINTS : Count(pts, p) > 1})

\* len(pts) != len(pts_set)
DuplicateMsgs(v) ==
  IF Len(v.points) # Cardinality(SeqSet(v.points))
  THEN <<Msg(v.name, "duplicate", Dupes(v.points))>>
  ELSE <<>>

\* sum(pts) != EXPECTED_SUM
SumMsgs(v) ==
  IF SeqSum(v.points) # EXPECTED_SUM
  THEN <<Msg(v.name, "sum", <<SeqSum(v.points), EXPECTED_SUM>>)>>
  ELSE <<>>

\* the body of the loop over voters: the messages of one ballot, in order
BallotMsgs(ss, v) ==
  CountMsgs(ss, v) \o ValueMsgs(v) \o DuplicateMsgs(v) \o SumMsgs(v)

\* a loop that stops one voter early
validateAllButLast(ss, vs) ==
  Flatten([k \in 1..(Len(vs) - 1) |-> BallotMsgs(ss, vs[k])])

validate(ss, vs) == Flatten([k \in DOMAIN vs |-> BallotMsgs(ss, vs[k])])

-----------------------------------------------------------------------------
\* tally(songs, voters)

\* totals[i] += pts raises IndexError for a ballot longer than the song list;
\* v["points"][i] raises IndexError for a ballot shorter than the song list
TallyRaises(ss, vs) ==
  \/ \E k \in DOMAIN vs : Len(vs[k].points) > Len(ss)
  \/ \E k \in DOMAIN vs : Len(vs[k].points) < Len(ss)

\* totals[i] after the loop over voters (i is 0-based)
RECURSIVE Total(_, _)
Total(vs, i) ==
  IF vs = <<>> THEN 0 ELSE Head(vs).points[i + 1] + Total(Tail(vs), i)

\* the names of the voters who gave song i exactly p points, in voter order
RECURSIVE NamesGiving(_, _, _)
NamesGiving(vs, i, p) ==
  IF vs = <<>> THEN <<>>
  ELSE (IF Head(vs).points[i + 1] = p THEN <<Head(vs).name>> ELSE <<>>)
       \o NamesGiving(Tail(vs), i, p)

\* vote counts that take a value for the nearest valid value below it
VoteCountsRoundedDown(vs, i) ==
  [p \in VALID_POINTS |->
     Cardinality({k \in DOMAIN vs :
        /\ vs[k].points[i + 1] >= p
        /\ \A q \in VALID_POINTS : q > p => vs[k].points[i + 1] < q})]

\* vote_counts[p] = sum(1 for v in voters if v["points"][i] == p)
VoteCounts(vs, i) ==
  [p \in VALID_POINTS |-> Cardinality({k \in DOMAIN vs : vs[k].points[i + 1] = p})]

\* the entry appended to results for song i
ResultOf(ss, vs, i) ==
  [song        |-> ss[i + 1],
   total       |-> Total(vs, i),
   champions   |-> NamesGiving(vs, i, 10),
   haters      |-> NamesGiving(vs, i, 1),
   vote_counts |-> VoteCounts(vs, i),
   index       |-> i]

\* a sort key that stops at the count of 10s
sort_key_10s_only(r) == <<r.total, <<r.vote_counts[10]>>>>

\* sort_key(r) = (total, (count of 10s, of 8s, ..., of 1s))
sort_key(r) ==
  <<r.total, [j \in DOMAIN POINT_ORDER |-> r.vote_counts[POINT_ORDER[j]]]>>

\* tuple comparison a < b of two equally long tuples of integers
RECURSIVE TupleLess(_, _)
TupleLess(a, b) ==
  IF a = <<>> THEN FALSE
  ELSE IF Head(a) # Head(b) THEN Head(a) < Head(b)
       ELSE TupleLess(Tail(a), Tail(b))

\* comparison of two sort keys
KeyLess(a, b) ==
  IF a[1] # b[1] THEN a[1] < b[1] ELSE TupleLess(a[2], b[2])

\* results.sort(key=sort_key, reverse=True): a stable sort, so r goes behind
\* every entry already placed whose key is not smaller than its own
RECURSIVE InsertDesc(_, _)
InsertDesc(rs, r) ==
  IF rs = <<>> THEN <<r>>
  ELSE IF KeyLess(sort_key(Head(rs)), sort_key(r)) THEN <<r>> \o rs
       ELSE <<Head(rs)>> \o InsertDesc(Tail(rs), r)

RECURSIVE SortDesc(_)
SortDesc(rs) ==
  IF rs = <<>> THEN <<>>
  ELSE InsertDesc(SortDesc(SubSeq(rs, 1, Len(rs) - 1)), rs[Len(rs)])

\* a dense rank: one more than the position of the previous distinct key
RECURSIVE PositionAtDense(_, _)
PositionAtDense(rs, i) ==
  IF i = 0 THEN 1
  ELSE IF sort_key(rs[i + 1]) = sort_key(rs[i])
  THEN PositionAtDense(rs, i - 1)
  ELSE PositionAtDense(rs, i - 1) + 1

\* r["position"] of the entry at 0-based index i of the sorted list; pos is
\* i + 1 when the loop reaches index i
RECURSIVE PositionAt(_, _)
PositionAt(rs, i) ==
  IF i > 0 /\ sort_key(rs[i + 1]) = sort_key(rs[i])
  THEN PositionAt(rs, i - 1)
  ELSE i + 1

\* a destination taken from the tie-aware position instead of the index
DestinationAtByPosition(rs, i) ==
  LET rank == PositionAt(rs, i)
  IN IF rank <= 2 THEN "FINAL"
     ELSE IF rank <= 4 THEN "ANDRA CHANSEN"
     ELSE "Eliminated"

\* r["destination"] of the entry at 0-based index i of the sorted list
DestinationAt(rs, i) ==
  LET rank == i + 1
  IN IF rank <= 2 THEN "FINAL"
     ELSE IF rank <= 4 THEN "ANDRA CHANSEN"
     ELSE "Eliminated"

\* the list tally returns when it does not raise
TallyResults(ss, vs) ==
  LET built  == [k \in 1..Len(ss) |-> ResultOf(ss, vs, k - 1)]
      sorted == SortDesc(built)
  IN [k \in 1..Len(sorted) |->
        [song        |-> sorted[k].song,
         total       |-> sorted[k].total,
         champions   |-> sorted[k].champions,
         haters      |-> sorted[k].haters,
         vote_counts |-> sorted[k].vote_counts,
         index       |-> sorted[k].index,
         position    |-> PositionAt(sorted, k - 1),
         destination |-> DestinationAt(sorted, k - 1)]]

\* tally(songs, voters): the exception raised ("none" when it returns) and
\* the returned list
tally(ss, vs) ==
  IF TallyRaises(ss, vs)
  THEN [raised |-> "IndexError", value |-> <<>>]
  ELSE [raised |-> "none", value |-> TallyResults(ss, vs)]

-----------------------------------------------------------------------------
\* Strings.  A string is the sequence of its characters, so that strip,
\* replace, lower, startswith, split and int are computed on the text.

Str_Lyssna  == <<"L", "y", "s", "s", "n", "a">>
Str_namn    == <<"n", "a", "m", "n">>
Str_Unknown == <<"U", "n", "k", "n", "o", "w", "n">>
Str_sp_p    == <<" ", "p">>
Str_p       == <<"p">>

Digits == <<"0", "1", "2", "3", "4", "5", "6", "7", "8", "9">>

UpperLetters == <<"A", "L", "N", "T">>
LowerLetters == <<"a", "l", "n", "t">>

\* s.startswith(prefix)
StartsWith(s, prefix) ==
  Len(s) >= Len(prefix) /\ SubSeq(s, 1, Len(prefix)) = prefix

\* sub in s
Contains(s, sub) ==
  \E k \in 1..(Len(s) - Len(sub) + 1) : SubSeq(s, k, k + Len(sub) - 1) = sub

\* s.lower()
LowerChar(c) ==
  IF \E k \in DOMAIN UpperLetters : UpperLetters[k] = c
  THEN LowerLetters[CHOOSE k \in DOMAIN UpperLetters : UpperLetters[k] = c]
  ELSE c

Lower(s) == [k \in DOMAIN s |-> LowerChar(s[k])]

\* s.strip()
RECURSIVE LStrip(_)
LStrip(s) == IF s # <<>> /\ Head(s) = " " THEN LStrip(Tail(s)) ELSE s

RECURSIVE RStripChar(_, _)
RStripChar(s, c) ==
  IF s # <<>> /\ s[Len(s)] = c THEN RStripChar(SubSeq(s, 1, Len(s) - 1), c) ELSE s

Strip(s) == RStripChar(LStrip(s), " ")

\* s.replace(pat, "")
RECURSIVE Remove(_, _)
Remove(s, pat) ==
  IF s = <<>> THEN <<>>
  ELSE IF StartsWith(s, pat) THEN Remove(SubSeq(s, Len(pat) + 1, Len(s)), pat)
       ELSE <<Head(s)>> \o Remove(Tail(s), pat)

\* int(val) raises ValueError unless val is a run of digits
IsInt(val) ==
  val # <<>> /\ \A k \in DOMAIN val : \E d \in DOMAIN Digits : Digits[d] = val[k]

DigitValue(c) == (CHOOSE d \in DOMAIN Digits : Digits[d] = c) - 1

RECURSIVE IntOf(_)
IntOf(val) ==
  IF val = <<>> THEN 0
  ELSE 10 * IntOf(SubSeq(val, 1, Len(val) - 1)) + DigitValue(val[Len(val)])

\* col.split("[")[1]: the text between the first "[" and the next one
RECURSIVE UpToBracket(_)
UpToBracket(s) ==
  IF s = <<>> \/ Head(s) = "[" THEN <<>> ELSE <<Head(s)>> \o UpToBracket(Tail(s))

RECURSIVE AfterBracket(_)
AfterBracket(s) == IF Head(s) = "[" THEN Tail(s) ELSE AfterBracket(Tail(s))

HasBracket(s) == \E k \in DOMAIN s : s[k] = "["

\* col.split("[")[1].rstrip("]")
SongName(col) == RStripChar(UpToBracket(AfterBracket(col)), "]")

-----------------------------------------------------------------------------
\* parse_tsv(filepath)

\* song_cols: the 0-based indexes of the columns that start with "Lyssna"
SongCols(hdr) ==
  Sorted({i \in 0..(Len(hdr) - 1) : StartsWith(hdr[i + 1], Str_Lyssna)})

\* col.split("[")[1] raises IndexError for a song column without "["
HeaderRaises(hdr) ==
  \E i \in 0..(Len(hdr) - 1) :
    StartsWith(hdr[i + 1], Str_Lyssna) /\ ~HasBracket(hdr[i + 1])

Songs(hdr) ==
  LET cols == SongCols(hdr) IN [k \in DOMAIN cols |-> SongName(hdr[cols[k] + 1])]

\* the loop that finds name_col: the first column whose lowered header
\* contains "namn", None when there is none
NameCol(hdr) ==
  LET hits == {i \in 0..(Len(hdr) - 1) : Contains(Lower(hdr[i + 1]), Str_namn)}
  IN IF hits = {} THEN None ELSE CHOOSE i \in hits : \A j \in hits : i <= j

\* the truth value of name_col in "name_col and ..."
Truthy(nc) == nc # None /\ nc # 0

\* not row or not row[0].strip(): the row is skipped
RowSkipped(r) == r = <<>> \/ Strip(r[1]) = <<>>

\* name = row[name_col].strip() if name_col and name_col < len(row) else "Unknown"
VoterName(r, nc) ==
  IF Truthy(nc) /\ nc < Len(r) THEN Strip(r[nc + 1]) ELSE Str_Unknown

\* val = row[col_idx].strip().replace(" p", "").replace("p", "")
PointText(cell) == Remove(Remove(Strip(cell), Str_sp_p), Str_p)

\* the exception of the loop over song_cols: the first column that fails
\* decides it ("none" when every cell converts)
RECURSIVE PointsRaise(_, _)
PointsRaise(r, cols) ==
  IF cols = <<>> THEN "none"
  ELSE IF Head(cols) >= Len(r) THEN "IndexError"
  ELSE IF ~IsInt(PointText(r[Head(cols) + 1])) THEN "ValueError"
  ELSE PointsRaise(r, Tail(cols))

\* points of a row whose cells all convert
Points(r, cols) == [k \in DOMAIN cols |-> IntOf(PointText(r[cols[k] + 1]))]

-----------------------------------------------------------------------------
\* Bounds and input sets

MaxCols   == 3
MaxRows   == 2
MaxSongs  == 5
MaxVoters == 2
MaxCells  == 6
MaxRot    == 2

SeqsUpTo(S, n) == UNION {[1..k -> S] : k \in 0..n}

\* header cells: "Tid", "Lyssna [A]", "Lyssna" and "Namn"
HeaderCells ==
  { <<"T", "i", "d">>,
    <<"L", "y", "s", "s", "n", "a", " ", "[", "A", "]">>,
    <<"L", "y", "s", "s", "n", "a">>,
    <<"N", "a", "m", "n">> }

\* data cells: "", " Al " and "10 p"
DataCells ==
  { <<>>, <<" ", "A", "l", " ">>, <<"1", "0", " ", "p">> }

SongNames  == <<"A", "B", "C", "D", "E", "F", "G", "H", "I", "J">>
VoterNames == <<"X", "Y", "Z", "W">>

\* point values of the small ballot tables: 10 + 2 = 8 + 4 = 6 + 6, three
\* ways to the same total that differ in the 10s and then in the 8s
TableVals == {2, 4, 6, 8, 10}

\* values written over cells of a complete ballot
EditVals == {1, 7, 10}

SongList(n) == [k \in 1..n |-> SongNames[k]]

\* the numbers of voters of a table of ballots of m values each
VoterCounts(m) == {w \in 0..MaxVoters : w * m <= MaxCells}

\* the tables of nv ballots of m values each
Tables(nv, m) == [1..nv -> [1..m -> TableVals]]

\* the voters of a table: row k is the ballot of the k-th voter name
VotersOf(pts) ==
  [k \in DOMAIN pts |-> [name |-> VoterNames[k], points |-> pts[k]]]

\* the valid values in descending order, rotated left by r places
Rotated(r) ==
  [k \in DOMAIN POINT_ORDER |-> POINT_ORDER[((k - 1 + r) % Len(POINT_ORDER)) + 1]]

\* two overwritten cells: <<position, value, position, value>>
Edits ==
  (1..Cardinality(VALID_POINTS)) \X EditVals \X (1..Cardinality(VALID_POINTS)) \X EditVals

\* a complete ballot in a rotated order with up to two cells overwritten
Edited(r, e) == [[Rotated(r) EXCEPT ![e[1]] = e[2]] EXCEPT ![e[3]] = e[4]]

\* ballot b as it is, cut by one value, or extended by one
Resized(b) ==
  {b, SubSeq(b, 1, Len(b) - 1)} \cup {Append(b, x) : x \in EditVals}

\* song counts around the size of a complete ballot
NearFull == (Cardinality(VALID_POINTS) - 1)..(Cardinality(VALID_POINTS) + 1)

-----------------------------------------------------------------------------
\* State
\*   pc        position in parse_tsv, in main, or between the direct calls
\*   argv      sys.argv
\*   file      what parse_tsv makes of the file main is given: the songs and
\*             voters it returns, or the exception it raises
\*   header    the header row of the file
\*   row       the data row read last
\*   songs, song_cols, name_col, voters   the locals of parse_tsv / main
\*   errors    the list validate returned
\*   results   the list tally returned
\*   raised    the exception that ended the run ("none" when there is none)
\*   out       what was printed, in order
\*   exitcode  the exit status of the process (None while it runs)

\* the outcomes of parse_tsv
Returns(ss, vs) == [raises |-> "none", songs |-> ss, voters |-> vs]
Raises(e) == [raises |-> e, songs |-> <<>>, voters |-> <<>>]

\* nothing parsed, computed or printed yet
Fresh ==
  /\ row = <<>>
  /\ song_cols = <<>>
  /\ name_col = None
  /\ errors = <<>>
  /\ results = <<>>
  /\ raised = "none"
  /\ out = <<>>
  /\ exitcode = None

-----------------------------------------------------------------------------
\* parse_tsv, one data row at a time

InitParse ==
  /\ Fresh
  /\ pc = "open"
  /\ argv = <<"tally.py", "votes.tsv">>
  /\ file = Returns(<<>>, <<>>)
  /\ header \in SeqsUpTo(HeaderCells, MaxCols)
  /\ songs = <<>>
  /\ voters = <<>>

\* the header row is read: songs, song_cols and name_col are set
ParseHeader ==
  /\ pc = "open"
  /\ IF HeaderRaises(header)
     THEN /\ pc' = "crashed"
          /\ raised' = "IndexError"
          /\ UNCHANGED <<songs, song_cols, name_col>>
     ELSE /\ pc' = "rows"
          /\ songs' = Songs(header)
          /\ song_cols' = SongCols(header)
          /\ name_col' = NameCol(header)
          /\ UNCHANGED raised
  /\ UNCHANGED <<file, argv, header, row, voters, errors, results, out, exitcode>>

\* one iteration of the loop over the data rows, on row r
ParseRow(r) ==
  /\ pc = "rows"
  /\ Len(voters) < MaxRows
  /\ row' = r
  /\ IF RowSkipped(r)
     THEN UNCHANGED <<pc, raised, voters>>
     ELSE IF PointsRaise(r, song_cols) # "none"
     THEN /\ pc' = "crashed"
          /\ raised' = PointsRaise(r, song_cols)
          /\ UNCHANGED voters
     ELSE /\ voters' = Append(voters, [name   |-> VoterName(r, name_col),
                                       points |-> Points(r, song_cols)])
          /\ UNCHANGED <<pc, raised>>
  /\ UNCHANGED <<file, argv, header, songs, song_cols, name_col, errors, results,
                 out, exitcode>>

\* the file is exhausted: return songs, voters
ParseReturn ==
  /\ pc = "rows"
  /\ pc' = "parsed"
  /\ UNCHANGED <<file, argv, header, row, songs, song_cols, name_col, voters,
                 errors, results, raised, out, exitcode>>

NextParse ==
  \/ ParseHeader
  \/ \E r \in SeqsUpTo(DataCells, MaxCols) : ParseRow(r)
  \/ ParseReturn

SpecParse == InitParse /\ [][NextParse]_vars

-----------------------------------------------------------------------------
\* validate and tally called on given songs and voters

InitCalls ==
  /\ Fresh
  /\ pc = "input"
  /\ argv = <<>>
  /\ file = Returns(<<>>, <<>>)
  /\ header = <<>>
  /\ \/ \E n \in 0..MaxSongs : \E nv \in VoterCounts(n) :
          \E pts \in Tables(nv, n) :
            songs = SongList(n) /\ voters = VotersOf(pts)
     \/ \E n \in NearFull : \E r \in 0..MaxRot : \E e \in Edits :
          \E b \in Resized(Edited(r, e)) :
            songs = SongList(n) /\ voters = VotersOf(<<b>>)

CallValidate ==
  /\ pc = "input"
  /\ errors' = validate(songs, voters)
  /\ pc' = "validated"
  /\ UNCHANGED <<file, argv, header, row, songs, song_cols, name_col, voters,
                 results, raised, out, exitcode>>

CallTally ==
  /\ pc = "validated"
  /\ LET t == tally(songs, voters)
     IN /\ results' = t.value
        /\ raised' = t.raised
  /\ pc' = "tallied"
  /\ UNCHANGED <<file, argv, header, row, songs, song_cols, name_col, voters,
                 errors, out, exitcode>>

NextCalls == CallValidate \/ CallTally

SpecCalls == InitCalls /\ [][NextCalls]_vars

-----------------------------------------------------------------------------
\* main.  The file is given as what parse_tsv makes of it; parse_tsv puts
\* one point value per song column into every ballot it returns.

\* exceptions parse_tsv raises on a file it cannot parse
ParseErrors == {"IndexError", "ValueError"}

\* the table rows and the voter lines print_results prints
ReportOf(ss, vs, rs) ==
  [nvoters |-> Len(vs),
   nsongs  |-> Len(ss),
   rows    |-> [k \in DOMAIN rs |->
                  [position    |-> rs[k].position,
                   song        |-> rs[k].song,
                   total       |-> rs[k].total,
                   num_10s     |-> rs[k].vote_counts[10],
                   destination |-> rs[k].destination,
                   champs      |-> rs[k].champions,
                   haters      |-> rs[k].haters]],
   lines   |-> [k \in DOMAIN vs |->
                  [name   |-> vs[k].name,
                   sum    |-> SeqSum(vs[k].points),
                   points |-> vs[k].points]]]

InitMain ==
  /\ Fresh
  /\ pc = "main"
  /\ \/ /\ argv = <<"tally.py">>
        /\ file = Returns(<<>>, <<>>)
     \/ /\ argv = <<"tally.py", "votes.tsv">>
        /\ \/ \E n \in 0..MaxSongs : \E nv \in VoterCounts(n) :
                \E pts \in Tables(nv, n) :
                  file = Returns(SongList(n), VotersOf(pts))
           \/ \E r \in 0..MaxRot : \E e \in Edits :
                file = Returns(SongList(Len(Edited(r, e))), VotersOf(<<Edited(r, e)>>))
           \/ \E x \in ParseErrors : file = Raises(x)
  /\ header = <<>>
  /\ songs = <<>>
  /\ voters = <<>>

\* len(sys.argv) < 2: usage, sys.exit(1)
MainUsage ==
  /\ pc = "main"
  /\ Len(argv) < 2
  /\ out' = Append(out, [kind |-> "usage", body |-> <<>>])
  /\ exitcode' = 1
  /\ pc' = "exited"
  /\ UNCHANGED <<file, argv, header, row, songs, song_cols, name_col, voters,
                 errors, results, raised>>

\* songs, voters = parse_tsv(filepath), returning
MainParse ==
  /\ pc = "main"
  /\ Len(argv) >= 2
  /\ file.raises = "none"
  /\ songs' = file.songs
  /\ voters' = file.voters
  /\ pc' = "parsed"
  /\ UNCHANGED <<file, argv, header, row, song_cols, name_col, errors, results,
                 raised, out, exitcode>>

\* parse_tsv(filepath) raising: the exception ends the process
MainParseRaises ==
  /\ pc = "main"
  /\ Len(argv) >= 2
  /\ file.raises # "none"
  /\ raised' = file.raises
  /\ exitcode' = 1
  /\ pc' = "crashed"
  /\ UNCHANGED <<file, argv, header, row, songs, song_cols, name_col, voters,
                 errors, results, out>>

\* errors = validate(songs, voters)
MainValidate ==
  /\ pc = "parsed"
  /\ errors' = validate(songs, voters)
  /\ pc' = "validated"
  /\ UNCHANGED <<file, argv, header, row, songs, song_cols, name_col, voters,
                 results, raised, out, exitcode>>

\* if errors: print them
MainPrintErrors ==
  /\ pc = "validated"
  /\ out' = IF errors # <<>>
            THEN Append(out, [kind |-> "errors", body |-> errors])
            ELSE out
  /\ pc' = "tallying"
  /\ UNCHANGED <<file, argv, header, row, songs, song_cols, name_col, voters,
                 errors, results, raised, exitcode>>

\* results = tally(songs, voters)
MainTally ==
  /\ pc = "tallying"
  /\ LET t == tally(songs, voters)
     IN IF t.raised # "none"
        THEN /\ raised' = t.raised
             /\ exitcode' = 1
             /\ pc' = "crashed"
             /\ UNCHANGED results
        ELSE /\ results' = t.value
             /\ pc' = "tallied"
             /\ UNCHANGED <<raised, exitcode>>
  /\ UNCHANGED <<file, argv, header, row, songs, song_cols, name_col, voters,
                 errors, out>>

\* print_results(songs, voters, results)
MainPrintResults ==
  /\ pc = "tallied"
  /\ out' = Append(out, [kind |-> "report",
                         body |-> ReportOf(songs, voters, results)])
  /\ pc' = "printed"
  /\ UNCHANGED <<file, argv, header, row, songs, song_cols, name_col, voters,
                 errors, results, raised, exitcode>>

\* an exit that forgets the validation errors
MainExitZero ==
  /\ pc = "printed"
  /\ exitcode' = 0
  /\ pc' = "exited"
  /\ UNCHANGED <<file, argv, header, row, songs, song_cols, name_col, voters,
                 errors, results, raised, out>>

\* if errors: sys.exit(1); otherwise main returns and the status is 0
MainExit ==
  /\ pc = "printed"
  /\ exitcode' = IF errors # <<>> THEN 1 ELSE 0
  /\ pc' = "exited"
  /\ UNCHANGED <<file, argv, header, row, songs, song_cols, name_col, voters,
                 errors, results, raised, out>>

NextMain ==
  \/ MainUsage
  \/ MainParse
  \/ MainParseRaises
  \/ MainValidate
  \/ MainPrintErrors
  \/ MainTally
  \/ MainPrintResults
  \/ MainExit

SpecMain == InitMain /\ [][NextMain]_vars

-----------------------------------------------------------------------------
\* Properties of validate (checked under SpecCalls)

\* the ballot is a permutation of VALID_POINTS: each value exactly once
IsPermutation(pts) ==
  /\ Len(pts) = Cardinality(VALID_POINTS)
  /\ \A p \in VALID_POINTS : Count(pts, p) = 1

\* the messages of the given kind that name a voter
MsgsOf(name, kind) ==
  {i \in DOMAIN errors : errors[i].voter = name /\ errors[i].kind = kind}

MsgsNaming(name) == {i \in DOMAIN errors : errors[i].voter = name}

\* the values that occur more than once in a ballot
Repeated(pts) == {x \in SeqSet(pts) : Count(pts, x) > 1}

Validated == pc \in {"validated", "tallied"}

\* C1 as stated: for any item list, a ballot that is a permutation of
\* VALID_POINTS gets no message from validate.
C1_NoMessageForAnyItemList ==
  Validated =>
    \A k \in DOMAIN voters :
      IsPermutation(voters[k].points) => MsgsNaming(voters[k].name) = {}

\* C1 amended: for an item list of as many items as VALID_POINTS has values,
\* a ballot that is a permutation of VALID_POINTS gets no message from
\* validate; for any other item list it gets the count message and no
\* other.
C1_NoMessageForFullItemList ==
  Validated =>
    \A k \in DOMAIN voters :
      IsPermutation(voters[k].points) =>
        IF Len(songs) = Cardinality(VALID_POINTS)
        THEN MsgsNaming(voters[k].name) = {}
        ELSE /\ MsgsNaming(voters[k].name) = MsgsOf(voters[k].name, "count")
             /\ Cardinality(MsgsNaming(voters[k].name)) = 1

\* a permutation in another order than the descending one passed validate
C1_Witness ==
  /\ pc = "validated"
  /\ Len(songs) = Cardinality(VALID_POINTS)
  /\ Len(voters) = 1
  /\ IsPermutation(voters[1].points)
  /\ voters[1].points # POINT_ORDER
  /\ errors = <<>>

\* C7 as stated: a ballot gets a duplicate-points message only when some
\* value of VALID_POINTS occurs more than once in it, the message lists
\* exactly those values, and a ballot whose repeated values are all outside
\* VALID_POINTS gets the invalid-value message and no duplicate message.
C7_DuplicateOnlyForValidValues ==
  Validated =>
    \A k \in DOMAIN voters :
      LET pts  == voters[k].points
          dups == MsgsOf(voters[k].name, "duplicate")
      IN /\ dups # {} => Repeated(pts) \cap VALID_POINTS # {}
         /\ \A i \in dups : SeqSet(errors[i].vals) = Repeated(pts) \cap VALID_POINTS
         /\ (Repeated(pts) # {} /\ Repeated(pts) \cap VALID_POINTS = {}) =>
               /\ MsgsOf(voters[k].name, "invalid") # {}
               /\ dups = {}

\* C7 amended: a ballot gets a duplicate-points message exactly when some
\* value, valid or not, occurs more than once in it; the message lists
\* exactly the values of VALID_POINTS that occur more than once, each once;
\* a ballot whose repeated values are all outside VALID_POINTS gets the
\* invalid-value message and a duplicate message with an empty list.
C7_DuplicateForAnyRepeatedValue ==
  Validated =>
    \A k \in DOMAIN voters :
      LET pts  == voters[k].points
          dups == MsgsOf(voters[k].name, "duplicate")
      IN /\ dups # {} <=> Repeated(pts) # {}
         /\ Cardinality(dups) <= 1
         /\ \A i \in dups :
              /\ SeqSet(errors[i].vals) = Repeated(pts) \cap VALID_POINTS
              /\ Len(errors[i].vals) = Cardinality(Repeated(pts) \cap VALID_POINTS)
         /\ (Repeated(pts) # {} /\ Repeated(pts) \cap VALID_POINTS = {}) =>
               /\ MsgsOf(voters[k].name, "invalid") # {}
               /\ \A i \in dups : errors[i].vals = <<>>

\* a ballot whose only repeated value is invalid got a duplicate message
\* with an empty list
C7_Witness ==
  /\ pc = "validated"
  /\ \E k \in DOMAIN voters :
       /\ Repeated(voters[k].points) # {}
       /\ Repeated(voters[k].points) \cap VALID_POINTS = {}
       /\ \E i \in MsgsOf(voters[k].name, "duplicate") : errors[i].vals = <<>>
       /\ MsgsOf(voters[k].name, "invalid") # {}

\* C10: every ballot that is not a permutation of VALID_POINTS gets at
\* least one message naming its voter, whatever the number of songs.
C10_NoInvalidBallotPasses ==
  Validated =>
    \A k \in DOMAIN voters :
      ~IsPermutation(voters[k].points) => MsgsNaming(voters[k].name) # {}

\* an invalid ballot of the right length and the right sum was reported
C10_Witness ==
  /\ pc = "validated"
  /\ Len(voters) = 1
  /\ Len(voters[1].points) = Len(songs)
  /\ SeqSum(voters[1].points) = EXPECTED_SUM
  /\ ~IsPermutation(voters[1].points)
  /\ MsgsNaming(voters[1].name) # {}

-----------------------------------------------------------------------------
\* Properties of tally (checked under SpecCalls)

Returned == pc = "tallied" /\ raised = "none"

\* the composite key of a result: its total, then its counts of 10s, 8s,
\* 6s, 5s, 4s, 3s, 2s and 1s
CompositeKey(r) ==
  <<r.total, r.vote_counts[10], r.vote_counts[8], r.vote_counts[6],
    r.vote_counts[5], r.vote_counts[4], r.vote_counts[3], r.vote_counts[2],
    r.vote_counts[1]>>

\* a >= b in the lexicographic order of two composite keys
KeyAtLeast(a, b) ==
  \/ a = b
  \/ \E j \in DOMAIN a : a[j] > b[j] /\ \A h \in 1..(j - 1) : a[h] = b[h]

\* C2: a result whose composite key equals that of the result before it has
\* the same position as that result; every other result has its 1-based
\* index as position; three results tied at the top followed by a strictly
\* lower fourth have the positions 1, 1, 1, 4.
C2_PositionsSkipAfterTies ==
  Returned =>
    /\ \A i \in DOMAIN results :
         IF i > 1 /\ CompositeKey(results[i]) = CompositeKey(results[i - 1])
         THEN results[i].position = results[i - 1].position
         ELSE results[i].position = i
    /\ ( /\ Len(results) = 4
         /\ CompositeKey(results[1]) = CompositeKey(results[2])
         /\ CompositeKey(results[2]) = CompositeKey(results[3])
         /\ CompositeKey(results[3]) # CompositeKey(results[4]) )
       => [i \in DOMAIN results |-> results[i].position] = <<1, 1, 1, 4>>

\* three results tied at the top, a strictly lower fourth
C2_Witness ==
  /\ Returned
  /\ Len(results) = 4
  /\ voters # <<>>
  /\ CompositeKey(results[1]) = CompositeKey(results[3])
  /\ CompositeKey(results[2]) = CompositeKey(results[3])
  /\ results[4].total < results[3].total
  /\ [i \in DOMAIN results |-> results[i].position] = <<1, 1, 1, 4>>

\* C3: the destination follows the 1-based index in the sorted list, not the
\* position: indexes 1 and 2 are FINAL, 3 and 4 ANDRA CHANSEN, 5 and above
\* Eliminated.
C3_DestinationByIndex ==
  Returned =>
    \A i \in DOMAIN results :
      results[i].destination =
        CASE i \in {1, 2} -> "FINAL"
          [] i \in {3, 4} -> "ANDRA CHANSEN"
          [] OTHER        -> "Eliminated"

\* results sharing position 1 received all three destinations
C3_Witness ==
  /\ Returned
  /\ voters # <<>>
  /\ \E i, j, k \in DOMAIN results :
       /\ results[i].position = 1 /\ results[i].destination = "FINAL"
       /\ results[j].position = 1 /\ results[j].destination = "ANDRA CHANSEN"
       /\ results[k].position = 1 /\ results[k].destination = "Eliminated"

\* C4: the returned list is in descending order of the composite key, and of
\* two results with equal totals the one with more 10s comes first.
C4_SortedByCompositeKey ==
  Returned =>
    /\ \A i \in 1..(Len(results) - 1) :
         KeyAtLeast(CompositeKey(results[i]), CompositeKey(results[i + 1]))
    /\ \A i, j \in DOMAIN results :
         ( /\ results[i].total = results[j].total
           /\ results[i].vote_counts[10] > results[j].vote_counts[10] ) => i < j

\* a song with more 10s was moved in front of an earlier song of equal total,
\* and two songs equal in total and in 10s were ordered by a lower count
C4_Witness ==
  /\ Returned
  /\ \E i \in 1..(Len(results) - 1) :
       /\ results[i].total = results[i + 1].total
       /\ results[i].vote_counts[10] > results[i + 1].vote_counts[10]
       /\ results[i].index > results[i + 1].index
  /\ \E i \in 1..(Len(results) - 1) :
       /\ results[i].total = results[i + 1].total
       /\ results[i].vote_counts[10] = results[i + 1].vote_counts[10]
       /\ CompositeKey(results[i]) # CompositeKey(results[i + 1])
       /\ results[i].index > results[i + 1].index

\* the sum of the eight vote counts of a result
CountSum(r) ==
  r.vote_counts[10] + r.vote_counts[8] + r.vote_counts[6] + r.vote_counts[5]
  + r.vote_counts[4] + r.vote_counts[3] + r.vote_counts[2] + r.vote_counts[1]

\* C6 as stated: whenever tally returns (every ballot then has a value at
\* every position), the eight vote counts of every result add up to the
\* number of ballots, also for ballots validate flags.
C6_CountsAddUpForAnyBallots ==
  Returned => \A i \in DOMAIN results : CountSum(results[i]) = Len(voters)

\* C6 amended: whenever tally returns, the eight vote counts of a result add
\* up to the number of ballots if every ballot's value at that item's
\* position is one of VALID_POINTS (and to the number of ballots with such a
\* value there otherwise), also for ballots validate flags.
C6_CountsAddUpForValidValues ==
  Returned =>
    \A i \in DOMAIN results :
      CountSum(results[i]) =
        Cardinality({k \in DOMAIN voters :
                       voters[k].points[results[i].index + 1] \in VALID_POINTS})

\* a flagged ballot, a song that got a valid value from every voter and
\* whose counts add up to the number of voters, and a song that got an
\* invalid value and whose counts add up to less
C6_Witness ==
  /\ Returned
  /\ voters # <<>>
  /\ errors # <<>>
  /\ \E i \in DOMAIN results :
       /\ \A k \in DOMAIN voters : voters[k].points[results[i].index + 1] \in VALID_POINTS
       /\ CountSum(results[i]) = Len(voters)
  /\ \E i \in DOMAIN results : CountSum(results[i]) < Len(voters)

\* C5 as stated: when a ballot's length differs from the number of songs,
\* validate reports it and tally still returns, with one result per song.
C5_LengthMismatchNotFatal ==
  pc = "tallied" =>
    \A k \in DOMAIN voters :
      Len(voters[k].points) # Len(songs) =>
        /\ MsgsOf(voters[k].name, "count") # {}
        /\ raised = "none"
        /\ Len(results) = Len(songs)

-----------------------------------------------------------------------------
\* Properties of main (checked under SpecMain)

\* what has been printed, by kind
Printed == [i \in DOMAIN out |-> out[i].kind]

\* the output of a run over a parsed file: the error lines if there are any,
\* then the report
FullOutput ==
  IF errors # <<>> THEN <<"errors", "report">> ELSE <<"report">>

\* the positions of main after parse_tsv has returned, in program order
AfterParse == <<"parsed", "validated", "tallying", "tallied", "printed", "exited">>

ParsedFile == \E j \in DOMAIN AfterParse : AfterParse[j] = pc

\* a run over a file that parses never ends in an exception
C8_GoesOn == file.raises = "none" => pc # "crashed" /\ raised = "none"

\* the order of a run over a parsed file: tally has run on the parsed
\* ballots by the time the report is printed, the error lines come before
\* the report, the process has no exit status before the report is printed,
\* and the status is 1 exactly when validate returned a message
C8_Order ==
  /\ ParsedFile /\ pc # "exited" => exitcode = None
  /\ pc \in {"printed", "exited"} /\ Len(argv) >= 2 =>
       /\ Printed = FullOutput
       /\ results = tally(songs, voters).value
       /\ out[Len(out)].body = ReportOf(songs, voters, results)
       /\ errors # <<>> => out[1].body = errors
       /\ errors = validate(songs, voters)
  /\ pc = "exited" /\ Len(argv) >= 2 =>
       exitcode = IF errors # <<>> THEN 1 ELSE 0

\* every step after parse_tsv returned moves main to its next position:
\* validate, the error lines, tally, the report, the exit
C8_Step ==
  ParsedFile =>
    \E j \in 1..(Len(AfterParse) - 1) : pc = AfterParse[j] /\ pc' = AfterParse[j + 1]

\* C8: in a run of main whose file parse_tsv reads, validation never blocks
\* tallying: the error lines (if any) are printed first, the full report is
\* always printed, and only then the process ends, with status 1 if and only
\* if validate returned a message and status 0 otherwise.
C8_ValidationNeverBlocksTallying ==
  /\ [](C8_GoesOn /\ C8_Order)
  /\ [][C8_Step]_vars

\* a run that printed error lines, then the report, and ended with status 1
C8_Witness ==
  /\ pc = "exited"
  /\ Printed = <<"errors", "report">>
  /\ Len(results) = Len(songs)
  /\ voters # <<>>
  /\ exitcode = 1

-----------------------------------------------------------------------------
\* Properties of parse_tsv (checked under SpecParse)

\* parse_tsv returns one point value per song column in every ballot, which
\* is what main hands to validate and tally
ParsedBallotsMatchSongs ==
  pc \in {"rows", "parsed"} =>
    \A k \in DOMAIN voters : Len(voters[k].points) = Len(songs)

\* the columns whose header contains "namn" in any case
NameColumns ==
  {i \in 0..(Len(header) - 1) : Contains(Lower(header[i + 1]), Str_namn)}

\* C9: the voter name of a kept row is the stripped cell of the first
\* column, at any index, whose header contains the name marker
\* case-insensitively; it is the placeholder only when there is no such
\* column or the row is too short to have it.
C9_NameFromFirstNameColumn ==
  (pc \in {"rows", "parsed"} /\ ~RowSkipped(row)) =>
    LET first == CHOOSE i \in NameColumns : \A j \in NameColumns : i <= j
    IN voters[Len(voters)].name =
         IF NameColumns # {} /\ first < Len(row)
         THEN Strip(row[first + 1])
         ELSE Str_Unknown

====
